---- MODULE Spec2Model ----
(***************************************************************************)
(* Supplier mapping service (backend/app): the import/grouping engine, the *)
(* mapping state machine, the moderation ledger and the seller scope       *)
(* checks, as request handlers running against one SQLite database.        *)
(*                                                                         *)
(* Storage model.  database.py builds the engine from a sqlite:/// URL     *)
(* with the SQLite-only connect argument check_same_thread, and every      *)
(* request gets a Session of its own.  SQLite has one write lock for the   *)
(* whole database: the first INSERT/UPDATE of a transaction takes it, it   *)
(* is held until COMMIT or ROLLBACK, a second writer waits for it and      *)
(* gives up with "database is locked" when the driver's busy timeout       *)
(* passes.  Readers see committed rows only.                               *)
(*                                                                         *)
(* Optional values are None == <<>> or Some(x) == <<x>>.  Free text that   *)
(* the code takes apart (the INN) is a sequence of one-character strings.  *)
(***************************************************************************)
EXTENDS Integers, Sequences, FiniteSets, TLC

VARIABLES
    groups,     \* table pricesuppliergroup, row id = index
    items,      \* table priceitem, row id = index
    mappings,   \* table suppliermapping, row id = index
    events,     \* table moderationevent, row id = index
    suppliers,  \* ids of the rows of table supplier
    issues,     \* table sellerissue, row id = index
    clock,      \* datetime.utcnow()
    writer,     \* the request holding SQLite's write lock, 0 when free
    req,        \* per worker: the request being handled and its Session
    resp        \* per worker: the last response sent

vars == <<groups, items, mappings, events, suppliers, issues, clock, writer, req, resp>>

db == <<groups, items, mappings, events, suppliers, issues>>

(* ------------------------------ bounds -------------------------------- *)
NumReq == 2        \* worker threads handling requests at the same time
MaxBatch == 2      \* rows in one import request
MaxItems == 3      \* price items imported in a run of imports
MaxCoreItems == 2  \* price items imported in a run with moderation
MaxMappings == 2   \* mappings proposed in a run
MaxClock == 1      \* clock readings 0..MaxClock
MaxIssues == 1     \* seller issues filed in a run
MaxDeskClock == 2  \* clock readings 0..MaxDeskClock in a moderation run
MaxInnDigits == 13 \* digits in an INN text given to the normalizer
MaxInnItems == 1   \* price items imported in a run over INN texts

Reqs == 1..NumReq

(* ------------------------------ values -------------------------------- *)
None == <<>>
Some(x) == <<x>>

Digits == {"0", "1", "2", "3", "4", "5", "6", "7", "8", "9"}

INN10 == <<"7", "7", "0", "1", "2", "3", "4", "5", "6", "7">>
INN10Formatted == <<"7", "7", "-", "0", "1", "/", "2", "3", "4", "5", "6", "7">>
INNShort == <<"1", "2", "3">>
INNNoDigit == <<"n", "/", "a">>

\* Rows a caller may send to /api/import/price_items (PriceItemImport).
ImportRows ==
    { [ownerId |-> "A", packetId |-> "P", inn |-> Some(INN10), std_supplier |-> "Acme"],
      [ownerId |-> "A", packetId |-> "P", inn |-> Some(INN10Formatted), std_supplier |-> "Acme"],
      [ownerId |-> "A", packetId |-> "P", inn |-> None, std_supplier |-> "Acme"],
      [ownerId |-> "A", packetId |-> "P", inn |-> Some(INNNoDigit), std_supplier |-> "Acme"],
      [ownerId |-> "B", packetId |-> "P", inn |-> Some(INNShort), std_supplier |-> "Acme"] }

RECURSIVE SeqsUpTo(_, _)
SeqsUpTo(S, n) ==
    IF n = 0 THEN {<<>>}
    ELSE LET shorter == SeqsUpTo(S, n - 1)
         IN shorter \cup {Append(s, x) : s \in {t \in shorter : Len(t) = n - 1}, x \in S}

Batches == SeqsUpTo(ImportRows, MaxBatch)

\* The rows imported in the runs that follow mappings through moderation: one
\* group key in scope (A, P) and one in scope (B, P).
CoreRows ==
    { [ownerId |-> "A", packetId |-> "P", inn |-> Some(INN10Formatted), std_supplier |-> "Acme"],
      [ownerId |-> "B", packetId |-> "P", inn |-> None, std_supplier |-> "Acme"] }

CoreBatches == SeqsUpTo(CoreRows, MaxBatch)

(* --------------------------- INN normalizer --------------------------- *)
IsDigit(c) == c \in Digits

\* Mutant: re.sub with count=1, only the first non-digit is removed.
StripFirstNonDigit(s) ==
    LET bad == {k \in DOMAIN s : ~IsDigit(s[k])}
    IN IF bad = {} THEN s
       ELSE LET k == CHOOSE k \in bad : \A j \in bad : k <= j
            IN SubSeq(s, 1, k - 1) \o SubSeq(s, k + 1, Len(s))

\* re.sub(r"\D", "", inn)
StripNonDigits(s) == SelectSeq(s, IsDigit)

\* Mutant: only ten digits make a valid INN.
normalize_inn_ten_only(inn) ==
    IF inn = None \/ inn[1] = <<>>
    THEN <<None, TRUE>>
    ELSE LET digits == StripNonDigits(inn[1])
         IN IF Len(digits) \in {10}
            THEN <<Some(digits), FALSE>>
            ELSE <<IF digits = <<>> THEN None ELSE Some(digits), TRUE>>

\* normalize_inn: <<normalized, is_invalid>>
normalize_inn(inn) ==
    IF inn = None \/ inn[1] = <<>>
    THEN <<None, TRUE>>
    ELSE LET digits == StripNonDigits(inn[1])
         IN IF Len(digits) \in {10, 12}
            THEN <<Some(digits), FALSE>>
            ELSE <<IF digits = <<>> THEN None ELSE Some(digits), TRUE>>

(* -------------------------- grouping engine --------------------------- *)
\* Mutant: the INN compared with SQL "=", which never matches a NULL.
GroupMatchesEqNull(g, owner, packet, inn_norm, raw) ==
    /\ g.owner_id = owner
    /\ g.packet_id = packet
    /\ inn_norm # None
    /\ g.inn_norm = inn_norm
    /\ g.std_supplier_raw = raw

\* Mutant: the lookup leaves the INN out of the key.
GroupMatchesIgnoreInn(g, owner, packet, inn_norm, raw) ==
    /\ g.owner_id = owner
    /\ g.packet_id = packet
    /\ g.std_supplier_raw = raw

\* The WHERE clause of the group lookup; inn_norm == None compiles to IS NULL.
GroupMatches(g, owner, packet, inn_norm, raw) ==
    /\ g.owner_id = owner
    /\ g.packet_id = packet
    /\ g.inn_norm = inn_norm
    /\ g.std_supplier_raw = raw

\* .first() of the lookup: the id of a matching row, 0 when there is none.
FindGroup(gs, owner, packet, inn_norm, raw) ==
    LET hits == {i \in DOMAIN gs : GroupMatches(gs[i], owner, packet, inn_norm, raw)}
    IN IF hits = {} THEN 0 ELSE CHOOSE i \in hits : \A j \in hits : i <= j

\* Mutant: the new group starts at one and is then incremented.
NewGroupCountOne(payload, inn_norm, inn_invalid, now) ==
    [owner_id |-> payload.ownerId, packet_id |-> payload.packetId,
     inn_norm |-> inn_norm, std_supplier_raw |-> payload.std_supplier,
     items_count |-> 1, inn_invalid |-> inn_invalid,
     created_at |-> now, updated_at |-> now]

NewGroup(payload, inn_norm, inn_invalid, now) ==
    [owner_id |-> payload.ownerId, packet_id |-> payload.packetId,
     inn_norm |-> inn_norm, std_supplier_raw |-> payload.std_supplier,
     items_count |-> 0, inn_invalid |-> inn_invalid,
     created_at |-> now, updated_at |-> now]

NewPriceItem(payload, inn_norm, inn_invalid, now) ==
    [owner_id |-> payload.ownerId, packet_id |-> payload.packetId,
     inn |-> IF payload.inn = None THEN <<>> ELSE payload.inn[1],
     inn_norm |-> inn_norm, inn_invalid |-> inn_invalid,
     std_supplier |-> payload.std_supplier, created_at |-> now]

\* One pass of the loop body over the Session's view of the group table.
GroupsAfterRow(gs, payload, now) ==
    LET n == normalize_inn(payload.inn)
        found == FindGroup(gs, payload.ownerId, payload.packetId, n[1], payload.std_supplier)
        withRow == IF found = 0 THEN Append(gs, NewGroup(payload, n[1], n[2], now)) ELSE gs
        gid == IF found = 0 THEN Len(withRow) ELSE found
    IN [withRow EXCEPT ![gid].items_count = @ + 1,
                       ![gid].inn_invalid = n[2],
                       ![gid].updated_at = now]

ItemsAfterRow(its, payload, now) ==
    LET n == normalize_inn(payload.inn)
    IN Append(its, NewPriceItem(payload, n[1], n[2], now))

(* ------------------------------- auth --------------------------------- *)
\* Table sellertoken (written by seed.py only): token -> scope and expiry.
SellerTokens ==
    [t \in {"tokA", "tokOld", "tokB", "tokQ"} |->
        CASE t = "tokA"   -> [owner_id |-> "A", packet_id |-> "P", expires_at |-> MaxClock + 1]
          [] t = "tokOld" -> [owner_id |-> "A", packet_id |-> "P", expires_at |-> 0]
          [] t = "tokB"   -> [owner_id |-> "B", packet_id |-> "P", expires_at |-> MaxClock + 1]
          [] t = "tokQ"   -> [owner_id |-> "A", packet_id |-> "Q", expires_at |-> MaxClock + 1]]

TokenInputs == DOMAIN SellerTokens \cup {"bogus"}

\* get_seller_context: the HTTP error it raises (0 when it returns the row).
get_seller_context(token, now) ==
    IF token \notin DOMAIN SellerTokens THEN 401
    ELSE IF SellerTokens[token].expires_at < now THEN 401
    ELSE 0

\* The admin_session cookie: absent, or a payload with its signature state.
AdminCookies ==
    { None,
      Some([user |-> "admin", signed |-> TRUE, exp |-> MaxClock + 1]),
      Some([user |-> "admin", signed |-> TRUE, exp |-> 0]),
      Some([user |-> "admin", signed |-> FALSE, exp |-> MaxClock + 1]) }

\* get_admin_user: Some(user), or None where it raises 401.
get_admin_user(cookie, now) ==
    IF cookie = None THEN None
    ELSE IF ~cookie[1].signed THEN None
    ELSE IF cookie[1].exp < now THEN None
    ELSE Some(cookie[1].user)

(* ------------------------- moderation ledger -------------------------- *)
\* REJECTION_REASONS (labels glossed in English).
REJECTION_REASONS ==
    [c \in {"WRONG_INN", "WRONG_SUPPLIER", "NEED_MORE_INFO", "SUPPLIER_NOT_FOUND",
            "DUPLICATE_REQUEST"} |->
        CASE c = "WRONG_INN" -> "INN is wrong"
          [] c = "WRONG_SUPPLIER" -> "Wrong supplier chosen"
          [] c = "NEED_MORE_INFO" -> "Not enough data"
          [] c = "SUPPLIER_NOT_FOUND" -> "Supplier is not in the directory"
          [] c = "DUPLICATE_REQUEST" -> "Duplicate request"]

\* Mutant: "is not None" in place of truthiness.
TruthyNotNone(s) == s # None

\* Python truthiness of an Optional[str].
Truthy(s) == s # None /\ s[1] # ""

\* REJECTION_REASONS.get(code) if code else None
EventLabel(code) ==
    IF Truthy(code) /\ code[1] \in DOMAIN REJECTION_REASONS
    THEN Some(REJECTION_REASONS[code[1]])
    ELSE None

\* REJECTION_REASONS.get(reason_code, reason_code)
ResponseLabel(code) ==
    IF code \in DOMAIN REJECTION_REASONS THEN REJECTION_REASONS[code] ELSE code

\* Mutant: the event keyed by the mapping's group id.
log_moderation_event_group_id(mapping_id, mapping, decision, admin_user, reason_code, comment, now) ==
    [owner_id |-> mapping.owner_id, packet_id |-> mapping.packet_id,
     supplier_group_id |-> mapping.group_id, mapping_id |-> mapping.group_id,
     decision |-> decision, decided_at |-> now, decided_by |-> admin_user,
     reject_reason_code |-> reason_code,
     reject_reason_label |-> EventLabel(reason_code),
     reject_comment_internal |-> comment]

\* log_moderation_event: the event built from the Session's mapping object.
log_moderation_event(mapping_id, mapping, decision, admin_user, reason_code, comment, now) ==
    [owner_id |-> mapping.owner_id, packet_id |-> mapping.packet_id,
     supplier_group_id |-> mapping.group_id, mapping_id |-> mapping_id,
     decision |-> decision, decided_at |-> now, decided_by |-> admin_user,
     reject_reason_code |-> reason_code,
     reject_reason_label |-> EventLabel(reason_code),
     reject_comment_internal |-> comment]

(* ----------------------------- requests ------------------------------- *)
Idle == [kind |-> "idle"]
NoResponse == [op |-> "none", code |-> 0]

Quiescent == \A r \in Reqs : req[r].kind = "idle"

\* Worker r takes a new request; alone: only when no request is in progress.
Admit(r, alone) ==
    /\ req[r].kind = "idle"
    /\ alone => Quiescent

\* SQLite's write lock: free, or already held by this request's transaction.
CanWrite(r) == writer \in {0, r}

\* Another transaction holds the write lock.
LockedOut(r) == writer \notin {0, r}

RECURSIVE RowsInFlightUpTo(_)
RowsInFlightUpTo(n) ==
    IF n = 0 THEN 0
    ELSE RowsInFlightUpTo(n - 1)
         + (IF req[n].kind = "import" THEN Len(req[n].items) ELSE 0)

RowsInFlight == RowsInFlightUpTo(NumReq)

ProposalsInFlight == Cardinality({r \in Reqs : req[r].kind = "propose"})

\* UPDATE ... SET <changed columns> WHERE id = ...
ApplyUpdate(row, changes) ==
    [f \in DOMAIN row |-> IF f \in DOMAIN changes THEN changes[f] ELSE row[f]]

\* Mutant: the new row overwrites the newest row of the table.
InsertedOverLast(table, row) ==
    IF table = <<>> THEN <<row>> ELSE [table EXCEPT ![Len(table)] = row]

\* Mutant: the new row takes id 1 and the stored rows move up.
InsertedAtHead(table, row) == <<row>> \o table

\* session.add(row) flushed as INSERT: the row gets the next id.
Inserted(table, row) == Append(table, row)

Init ==
    /\ groups = <<>>
    /\ items = <<>>
    /\ mappings = <<>>
    /\ events = <<>>
    /\ suppliers = {1, 2}
    /\ issues = <<>>
    /\ clock = 0
    /\ writer = 0
    /\ req = [r \in Reqs |-> Idle]
    /\ resp = [r \in Reqs |-> NoResponse]

Tick ==
    /\ clock < MaxClock
    /\ clock' = clock + 1
    /\ UNCHANGED <<db, writer, req, resp>>

\* The clock over a moderation run, where decisions follow proposals.
TickDesk ==
    /\ clock < MaxDeskClock
    /\ clock' = clock + 1
    /\ UNCHANGED <<db, writer, req, resp>>

\* The request ends: the Session is closed and the response goes out.
Reply(r, response) ==
    /\ req' = [req EXCEPT ![r] = Idle]
    /\ resp' = [resp EXCEPT ![r] = response]

(* --------------------- POST /api/import/price_items ------------------- *)
ImportStart(r, batch, alone, cap) ==
    /\ Admit(r, alone)
    /\ Len(items) + RowsInFlight + Len(batch) <= cap
    /\ req' = [req EXCEPT ![r] = [kind |-> "import", pc |-> "row", items |-> batch,
                                  idx |-> 1, now |-> clock,
                                  tgroups |-> <<>>, titems |-> <<>>]]
    /\ resp' = [resp EXCEPT ![r] = NoResponse]
    /\ UNCHANGED <<db, clock, writer>>

\* One iteration of the loop: the autoflush before the lookup opens the write
\* transaction (the INSERT of the price item), then the lookup and the
\* create-or-increment run on the transaction's view.
ImportRow(r) ==
    /\ req[r].kind = "import"
    /\ req[r].idx <= Len(req[r].items)
    /\ CanWrite(r)
    /\ LET rq == req[r]
           payload == rq.items[rq.idx]
           gs == IF writer = r THEN rq.tgroups ELSE groups
           its == IF writer = r THEN rq.titems ELSE items
       IN req' = [req EXCEPT ![r].tgroups = GroupsAfterRow(gs, payload, rq.now),
                             ![r].titems = ItemsAfterRow(its, payload, rq.now),
                             ![r].idx = rq.idx + 1]
    /\ writer' = r
    /\ UNCHANGED <<db, clock, resp>>

\* session.commit() after the loop, then the response.
ImportCommit(r) ==
    /\ req[r].kind = "import"
    /\ req[r].idx > Len(req[r].items)
    /\ IF writer = r
       THEN /\ groups' = req[r].tgroups
            /\ items' = req[r].titems
            /\ writer' = 0
       ELSE UNCHANGED <<groups, items, writer>>
    /\ Reply(r, [op |-> "import", code |-> 200, imported |-> Len(req[r].items)])
    /\ UNCHANGED <<mappings, events, suppliers, issues, clock>>

(* ------------------------ POST /api/seller/mappings ------------------- *)
ProposeStart(r, token, group_id, supplier_id, alone) ==
    /\ Admit(r, alone)
    /\ Len(mappings) + ProposalsInFlight < MaxMappings
    /\ req' = [req EXCEPT ![r] = [kind |-> "propose", pc |-> "check", token |-> token,
                                  group_id |-> group_id,
                                  canonical_supplier_id |-> supplier_id]]
    /\ resp' = [resp EXCEPT ![r] = NoResponse]
    /\ UNCHANGED <<db, clock, writer>>

\* Mutant: the packet of the scope is not compared.
GroupOutOfScopeOwnerOnly(gs, group_id, seller) ==
    \/ group_id \notin DOMAIN gs
    \/ gs[group_id].owner_id # seller.owner_id

\* The group is missing or outside the seller's (owner, packet) scope.
GroupOutOfScope(gs, group_id, seller) ==
    \/ group_id \notin DOMAIN gs
    \/ gs[group_id].owner_id # seller.owner_id
    \/ gs[group_id].packet_id # seller.packet_id

\* Mutant: the snapshot columns are left to their defaults.
NewMappingWithoutSnapshot(group_id, group, supplier_id, now) ==
    [group_id |-> group_id, canonical_supplier_id |-> supplier_id,
     owner_id |-> group.owner_id, packet_id |-> group.packet_id,
     status |-> "PENDING", created_at |-> now, updated_at |-> now,
     approved_at |-> None, approved_by |-> None,
     rejected_at |-> None, rejected_by |-> None, reject_reason |-> None,
     std_supplier_raw |-> "", inn_norm |-> None]

\* SupplierMapping(...) as create_mapping builds it.
NewMapping(group_id, group, supplier_id, now) ==
    [group_id |-> group_id, canonical_supplier_id |-> supplier_id,
     owner_id |-> group.owner_id, packet_id |-> group.packet_id,
     status |-> "PENDING", created_at |-> now, updated_at |-> now,
     approved_at |-> None, approved_by |-> None,
     rejected_at |-> None, rejected_by |-> None, reject_reason |-> None,
     std_supplier_raw |-> group.std_supplier_raw, inn_norm |-> group.inn_norm]

\* The HTTP error create_mapping raises before it builds the mapping (0: none).
ProposeRefusal(token, group_id, supplier_id, now, gs, sups) ==
    IF get_seller_context(token, now) # 0 THEN get_seller_context(token, now)
    ELSE IF GroupOutOfScope(gs, group_id, SellerTokens[token]) THEN 404
    ELSE IF supplier_id \notin sups THEN 404
    ELSE 0

\* The token, group and supplier checks, and the mapping object built on success.
ProposeCheck(r) ==
    /\ req[r].kind = "propose"
    /\ req[r].pc = "check"
    /\ LET rq == req[r]
           refusal == ProposeRefusal(rq.token, rq.group_id, rq.canonical_supplier_id,
                                     clock, groups, suppliers)
       IN IF refusal # 0
          THEN Reply(r, [op |-> "propose", code |-> refusal])
          ELSE /\ req' = [req EXCEPT ![r] =
                            [kind |-> "propose", pc |-> "commit", token |-> rq.token,
                             obj |-> NewMapping(rq.group_id, groups[rq.group_id],
                                                rq.canonical_supplier_id, clock)]]
               /\ UNCHANGED resp
    /\ UNCHANGED <<db, clock, writer>>

\* session.add(mapping); session.commit(); session.refresh(mapping)
ProposeCommit(r) ==
    /\ req[r].kind = "propose"
    /\ req[r].pc = "commit"
    /\ CanWrite(r)
    /\ mappings' = Inserted(mappings, req[r].obj)
    /\ Reply(r, [op |-> "propose", code |-> 200, status |-> "PENDING",
                 mapping_id |-> Len(mappings) + 1])
    /\ UNCHANGED <<groups, items, events, suppliers, issues, clock, writer>>

(* ------------- POST /api/admin/mappings/{mapping_id}/approve ---------- *)
\* Depends(get_admin_user) raised 401: the handler body never runs.
AdminUnauthorized(r, op, cookie, alone) ==
    /\ Admit(r, alone)
    /\ get_admin_user(cookie, clock) = None
    /\ Reply(r, [op |-> op, code |-> 401])
    /\ UNCHANGED <<db, clock, writer>>

ApproveStart(r, mapping_id, cookie, alone) ==
    /\ Admit(r, alone)
    /\ get_admin_user(cookie, clock) # None
    /\ req' = [req EXCEPT ![r] = [kind |-> "approve", pc |-> "check",
                                  mapping_id |-> mapping_id,
                                  admin |-> get_admin_user(cookie, clock)[1]]]
    /\ resp' = [resp EXCEPT ![r] = NoResponse]
    /\ UNCHANGED <<db, clock, writer>>

\* Mutant: only the existence of the mapping is tested.
NotPendingMissingOnly(ms, mapping_id) == mapping_id \notin DOMAIN ms

\* Mutant: only an APPROVED mapping counts as decided.
NotPendingApprovedOnly(ms, mapping_id) ==
    \/ mapping_id \notin DOMAIN ms
    \/ ms[mapping_id].status = "APPROVED"

\* not mapping or mapping.status != PENDING
NotPending(ms, mapping_id) ==
    \/ mapping_id \notin DOMAIN ms
    \/ ms[mapping_id].status # "PENDING"

\* The columns approve_mapping assigns.
ApproveChanges(admin, now) ==
    [status |-> "APPROVED", approved_at |-> Some(now), approved_by |-> Some(admin),
     updated_at |-> now]

ApproveCheck(r) ==
    /\ req[r].kind = "approve"
    /\ req[r].pc = "check"
    /\ LET rq == req[r]
       IN IF NotPending(mappings, rq.mapping_id)
          THEN Reply(r, [op |-> "approve", code |-> 404, mapping_id |-> rq.mapping_id])
          ELSE LET changes == ApproveChanges(rq.admin, clock)
                   obj == ApplyUpdate(mappings[rq.mapping_id], changes)
               IN /\ req' = [req EXCEPT ![r] =
                               [kind |-> "approve", pc |-> "commit",
                                mapping_id |-> rq.mapping_id, changes |-> changes,
                                event |-> log_moderation_event(rq.mapping_id, obj, "APPROVED",
                                                               rq.admin, None, None, clock)]]
                  /\ UNCHANGED resp
    /\ UNCHANGED <<db, clock, writer>>

\* session.commit(): the UPDATE of the mapping and the INSERT of the event,
\* one transaction.
ApproveCommit(r) ==
    /\ req[r].kind = "approve"
    /\ req[r].pc = "commit"
    /\ CanWrite(r)
    /\ mappings' = [mappings EXCEPT ![req[r].mapping_id] = ApplyUpdate(@, req[r].changes)]
    /\ events' = Inserted(events, req[r].event)
    /\ Reply(r, [op |-> "approve", code |-> 200, mapping_id |-> req[r].mapping_id,
                 status |-> "APPROVED"])
    /\ UNCHANGED <<groups, items, suppliers, issues, clock, writer>>

(* ------------- POST /api/admin/mappings/{mapping_id}/reject ----------- *)
\* RejectRequest bodies and ?reason= values a caller may send: no body, an
\* empty code, a code of the table with an internal comment, a code outside it.
RejectPayloads ==
    { None,
      Some([reason_code |-> "", comment_internal |-> None]),
      Some([reason_code |-> "WRONG_INN", comment_internal |-> Some("note")]),
      Some([reason_code |-> "OTHER", comment_internal |-> None]) }

RejectReasons == {None, Some("")}

RejectStart(r, mapping_id, payload, reason, cookie, alone) ==
    /\ Admit(r, alone)
    /\ get_admin_user(cookie, clock) # None
    /\ req' = [req EXCEPT ![r] = [kind |-> "reject", pc |-> "check",
                                  mapping_id |-> mapping_id, payload |-> payload,
                                  reason |-> reason,
                                  admin |-> get_admin_user(cookie, clock)[1]]]
    /\ resp' = [resp EXCEPT ![r] = NoResponse]
    /\ UNCHANGED <<db, clock, writer>>

\* reason_code = payload.reason_code if payload else reason
ReasonCode(payload, reason) ==
    IF payload # None THEN Some(payload[1].reason_code) ELSE reason

\* The columns reject_mapping assigns.
RejectChanges(admin, reason_code, now) ==
    [status |-> "REJECTED", rejected_at |-> Some(now), rejected_by |-> Some(admin),
     updated_at |-> now, reject_reason |-> reason_code]

RejectCheck(r) ==
    /\ req[r].kind = "reject"
    /\ req[r].pc = "check"
    /\ LET rq == req[r]
           reason_code == ReasonCode(rq.payload, rq.reason)
       IN IF NotPending(mappings, rq.mapping_id)
          THEN Reply(r, [op |-> "reject", code |-> 404, mapping_id |-> rq.mapping_id])
          ELSE IF ~Truthy(reason_code)
          THEN Reply(r, [op |-> "reject", code |-> 400, mapping_id |-> rq.mapping_id])
          ELSE LET changes == RejectChanges(rq.admin, reason_code, clock)
                   obj == ApplyUpdate(mappings[rq.mapping_id], changes)
                   comment == IF rq.payload # None THEN rq.payload[1].comment_internal
                              ELSE None
               IN /\ req' = [req EXCEPT ![r] =
                               [kind |-> "reject", pc |-> "commit",
                                mapping_id |-> rq.mapping_id, changes |-> changes,
                                reason_label |-> ResponseLabel(reason_code[1]),
                                event |-> log_moderation_event(rq.mapping_id, obj, "REJECTED",
                                                               rq.admin, reason_code, comment,
                                                               clock)]]
                  /\ UNCHANGED resp
    /\ UNCHANGED <<db, clock, writer>>

RejectCommit(r) ==
    /\ req[r].kind = "reject"
    /\ req[r].pc = "commit"
    /\ CanWrite(r)
    /\ mappings' = [mappings EXCEPT ![req[r].mapping_id] = ApplyUpdate(@, req[r].changes)]
    /\ events' = Inserted(events, req[r].event)
    /\ Reply(r, [op |-> "reject", code |-> 200, mapping_id |-> req[r].mapping_id,
                 status |-> "REJECTED", reason_label |-> req[r].reason_label])
    /\ UNCHANGED <<groups, items, suppliers, issues, clock, writer>>

(* ------------------------------ resolver ------------------------------ *)
\* Table supplier: the columns of the directory rows that the handlers read
\* (the ids present are in `suppliers`).
SupplierRows ==
    [s \in {1, 2} |->
        IF s = 1 THEN [supplier |-> <<"R", "o", "s">>, inn |-> INN10]
        ELSE [supplier |-> <<"B", "e", "r", "g">>,
              inn |-> <<"7", "8", "0", "7", "6", "5", "4", "3", "2", "1">>]]

\* mapping.canonical_supplier.supplier if mapping.canonical_supplier else None
CanonicalName(sups, supplier_id) ==
    IF supplier_id \in sups THEN Some(SupplierRows[supplier_id].supplier) ELSE None

\* Mutant: the mapping decided last (greatest updated_at) is taken.
latest_mapping_by_decision(ms, group_id) ==
    LET S == {m \in DOMAIN ms : ms[m].group_id = group_id}
    IN {m \in S : \A n \in S : ms[n].updated_at <= ms[m].updated_at}

\* latest_mapping_for_group: the rows that ORDER BY created_at DESC may put
\* first (all rows with the greatest created_at); empty when .first() is None.
latest_mapping_for_group(ms, group_id) ==
    LET S == {m \in DOMAIN ms : ms[m].group_id = group_id}
    IN {m \in S : \A n \in S : ms[n].created_at <= ms[m].created_at}

\* Mutant: the REJECTED event written first is taken.
first_reject_event_for_group(evs, group_id) ==
    LET S == {e \in DOMAIN evs : /\ evs[e].supplier_group_id = group_id
                                 /\ evs[e].decision = "REJECTED"}
    IN {e \in S : \A f \in S : evs[e].decided_at <= evs[f].decided_at}

\* last_reject_event_for_group: the rows that ORDER BY decided_at DESC may put
\* first among the group's REJECTED events.
last_reject_event_for_group(evs, group_id) ==
    LET S == {e \in DOMAIN evs : /\ evs[e].supplier_group_id = group_id
                                 /\ evs[e].decision = "REJECTED"}
    IN {e \in S : \A f \in S : evs[f].decided_at <= evs[e].decided_at}

\* Mutant: the internal comment is surfaced where the label is missing.
RejectLabelOrComment(ev) ==
    IF ev.reject_reason_label # None THEN ev.reject_reason_label
    ELSE ev.reject_comment_internal

\* reject_reason_label = ev.reject_reason_label
RejectLabel(ev) == ev.reject_reason_label

\* Mutant: the group's last REJECTED event is surfaced whatever the status of
\* the latest mapping.
GroupOutStaleReject(group_id, group, ms, evs, sups, m, e) ==
    LET rejected == m # 0 /\ ms[m].status = "REJECTED"
        ev_found == m # 0 /\ e # 0
    IN [id |-> group_id, owner_id |-> group.owner_id, packet_id |-> group.packet_id,
        inn_norm |-> group.inn_norm, inn_invalid |-> group.inn_invalid,
        std_supplier_raw |-> group.std_supplier_raw, items_count |-> group.items_count,
        status |-> IF m = 0 THEN "UNMAPPED" ELSE ms[m].status,
        canonical_supplier |->
            IF m = 0 THEN None ELSE CanonicalName(sups, ms[m].canonical_supplier_id),
        canonical_supplier_id |->
            IF m = 0 THEN None ELSE Some(ms[m].canonical_supplier_id),
        latest_status |-> IF m = 0 THEN None ELSE Some(ms[m].status),
        latest_decision_at |->
            IF m = 0 THEN None
            ELSE IF ev_found THEN Some(evs[e].decided_at)
            ELSE Some(ms[m].updated_at),
        reject_reason_label |-> IF ev_found THEN RejectLabel(evs[e]) ELSE None]

\* resolve_group_status with the rows its two queries returned: m a mapping id
\* (0: no mapping) and e an event id (0: no event).
GroupOut(group_id, group, ms, evs, sups, m, e) ==
    LET rejected == m # 0 /\ ms[m].status = "REJECTED"
        ev_found == rejected /\ e # 0
    IN [id |-> group_id, owner_id |-> group.owner_id, packet_id |-> group.packet_id,
        inn_norm |-> group.inn_norm, inn_invalid |-> group.inn_invalid,
        std_supplier_raw |-> group.std_supplier_raw, items_count |-> group.items_count,
        status |-> IF m = 0 THEN "UNMAPPED" ELSE ms[m].status,
        canonical_supplier |->
            IF m = 0 THEN None ELSE CanonicalName(sups, ms[m].canonical_supplier_id),
        canonical_supplier_id |->
            IF m = 0 THEN None ELSE Some(ms[m].canonical_supplier_id),
        latest_status |-> IF m = 0 THEN None ELSE Some(ms[m].status),
        latest_decision_at |->
            IF m = 0 THEN None
            ELSE IF ev_found THEN Some(evs[e].decided_at)
            ELSE Some(ms[m].updated_at),
        reject_reason_label |-> IF ev_found THEN RejectLabel(evs[e]) ELSE None]

\* The values resolve_group_status may return for a group.
resolve_group_status(gs, ms, evs, sups, group_id) ==
    LET first(S) == IF S = {} THEN {0} ELSE S
    IN { GroupOut(group_id, gs[group_id], ms, evs, sups, m, e) :
            m \in first(latest_mapping_for_group(ms, group_id)),
            e \in first(last_reject_event_for_group(evs, group_id)) }

(* ------------------------ GET /api/seller/groups ---------------------- *)
\* Mutant: the packet of the scope is not compared.
ScopeGroupsOwnerOnly(gs, seller) ==
    {g \in DOMAIN gs : gs[g].owner_id = seller.owner_id}

\* The groups of the seller's (owner, packet) scope.
ScopeGroups(gs, seller) ==
    {g \in DOMAIN gs : /\ gs[g].owner_id = seller.owner_id
                       /\ gs[g].packet_id = seller.packet_id}

\* The bodies list_groups may return: one PriceSupplierGroupOut per group of
\* the scope (the query has no ORDER BY, so the body is kept as a map by id).
list_groups(gs, ms, evs, sups, seller) ==
    LET ids == ScopeGroups(gs, seller)
        outs == UNION {resolve_group_status(gs, ms, evs, sups, g) : g \in ids}
    IN {f \in [ids -> outs] :
          \A g \in ids : f[g] \in resolve_group_status(gs, ms, evs, sups, g)}

ListGroups(r, token, alone) ==
    /\ Admit(r, alone)
    /\ IF get_seller_context(token, clock) # 0
       THEN Reply(r, [op |-> "list_groups", code |-> get_seller_context(token, clock),
                      token |-> token])
       ELSE \E body \in list_groups(groups, mappings, events, suppliers, SellerTokens[token]) :
               Reply(r, [op |-> "list_groups", code |-> 200, token |-> token,
                         groups |-> body])
    /\ UNCHANGED <<db, clock, writer>>

(* ----------------------- GET /api/seller/suppliers -------------------- *)
\* Code points of the characters of the directory names.
CodePoint(c) ==
    CASE c = "B" -> 66 [] c = "R" -> 82 [] c = "e" -> 101 [] c = "g" -> 103
      [] c = "o" -> 111 [] c = "r" -> 114 [] c = "s" -> 115 [] OTHER -> 0

\* str.casefold on the characters in use.
CaseFold(s) ==
    [i \in DOMAIN s |-> CASE s[i] = "B" -> "b" [] s[i] = "R" -> "r" [] s[i] = "E" -> "e"
                          [] OTHER -> s[i]]

RECURSIVE Strip(_)
\* str.strip
Strip(s) ==
    IF s = <<>> THEN s
    ELSE IF Head(s) = " " THEN Strip(Tail(s))
    ELSE IF s[Len(s)] = " " THEN Strip(SubSeq(s, 1, Len(s) - 1))
    ELSE s

\* needle in text
Contains(needle, text) ==
    \E i \in 0..(Len(text) - Len(needle)) : SubSeq(text, i + 1, i + Len(needle)) = needle

RECURSIVE NameBefore(_, _)
\* a < b in the binary collation of ORDER BY Supplier.supplier
NameBefore(a, b) ==
    IF b = <<>> THEN FALSE
    ELSE IF a = <<>> THEN TRUE
    ELSE IF CodePoint(Head(a)) # CodePoint(Head(b)) THEN CodePoint(Head(a)) < CodePoint(Head(b))
    ELSE NameBefore(Tail(a), Tail(b))

\* The query strings a seller may send.
SearchQueries ==
    { <<>>, <<" ">>, <<"r", "o">>, <<"B", "E">>, <<"7", "7">>, <<"z">>, <<" ", "e", "r", " ">> }

\* search_suppliers: the ids of the rows returned, in the order returned.
search_suppliers(sups, q) ==
    LET q_norm == Strip(q)
        needle == CaseFold(q_norm)
        hit(x) == \/ q_norm = <<>>
                  \/ Contains(needle, CaseFold(SupplierRows[x].supplier))
                  \/ Contains(needle, CaseFold(SupplierRows[x].inn))
        hits == {x \in sups : hit(x)}
    IN CHOOSE out \in [1..Cardinality(hits) -> hits] :
          /\ \A i, j \in DOMAIN out : i # j => out[i] # out[j]
          /\ \A i, j \in DOMAIN out :
                i < j => NameBefore(SupplierRows[out[i]].supplier, SupplierRows[out[j]].supplier)

SearchSuppliers(r, q, alone) ==
    /\ Admit(r, alone)
    /\ Reply(r, [op |-> "search_suppliers", code |-> 200,
                 suppliers |-> search_suppliers(suppliers, q)])
    /\ UNCHANGED <<db, clock, writer>>

(* ------------------------- POST /api/seller/issues -------------------- *)
IssueStart(r, token, group_id, comment, alone) ==
    /\ Admit(r, alone)
    /\ Len(issues) + Cardinality({q \in Reqs : req[q].kind = "issue"}) < MaxIssues
    /\ req' = [req EXCEPT ![r] = [kind |-> "issue", pc |-> "check", token |-> token,
                                  group_id |-> group_id, comment |-> comment]]
    /\ resp' = [resp EXCEPT ![r] = NoResponse]
    /\ UNCHANGED <<db, clock, writer>>

NewIssue(group_id, group, seller, comment, now) ==
    [owner_id |-> seller.owner_id, packet_id |-> seller.packet_id,
     group_id |-> group_id, inn |-> group.inn_norm, inn_norm |-> group.inn_norm,
     std_supplier |-> group.std_supplier_raw, comment |-> comment, created_at |-> now]

\* The HTTP error create_issue raises before it builds the issue (0: none).
IssueRefusal(token, group_id, now, gs) ==
    IF get_seller_context(token, now) # 0 THEN get_seller_context(token, now)
    ELSE IF GroupOutOfScope(gs, group_id, SellerTokens[token]) THEN 404
    ELSE 0

\* The token and group checks, and the issue object built on success.
IssueCheck(r) ==
    /\ req[r].kind = "issue"
    /\ req[r].pc = "check"
    /\ LET rq == req[r]
           refusal == IssueRefusal(rq.token, rq.group_id, clock, groups)
       IN IF refusal # 0
          THEN Reply(r, [op |-> "issue", code |-> refusal])
          ELSE /\ req' = [req EXCEPT ![r] =
                            [kind |-> "issue", pc |-> "commit", token |-> rq.token,
                             obj |-> NewIssue(rq.group_id, groups[rq.group_id],
                                              SellerTokens[rq.token], rq.comment, clock)]]
               /\ UNCHANGED resp
    /\ UNCHANGED <<db, clock, writer>>

\* session.add(issue); session.commit(); session.refresh(issue); return issue
IssueCommit(r) ==
    /\ req[r].kind = "issue"
    /\ req[r].pc = "commit"
    /\ CanWrite(r)
    /\ issues' = Inserted(issues, req[r].obj)
    /\ Reply(r, [op |-> "issue", code |-> 200, id |-> Len(issues) + 1,
                 issue |-> req[r].obj])
    /\ UNCHANGED <<groups, items, mappings, events, suppliers, clock, writer>>

(* ------------- DELETE /api/admin/suppliers/{supplier_id} -------------- *)
DeleteStart(r, supplier_id, cookie, alone) ==
    /\ Admit(r, alone)
    /\ get_admin_user(cookie, clock) # None
    /\ req' = [req EXCEPT ![r] = [kind |-> "delete", pc |-> "check",
                                  supplier_id |-> supplier_id]]
    /\ resp' = [resp EXCEPT ![r] = NoResponse]
    /\ UNCHANGED <<db, clock, writer>>

\* session.get(Supplier, supplier_id), 404 when there is no row.
DeleteCheck(r) ==
    /\ req[r].kind = "delete"
    /\ req[r].pc = "check"
    /\ IF req[r].supplier_id \notin suppliers
       THEN Reply(r, [op |-> "delete", code |-> 404])
       ELSE /\ req' = [req EXCEPT ![r].pc = "commit"]
            /\ UNCHANGED resp
    /\ UNCHANGED <<db, clock, writer>>

\* Supplier.mappings: the mappings the flush of session.delete(supplier) has
\* to detach (it sets their canonical_supplier_id to NULL).
Referenced(ms, supplier_id) ==
    \E m \in DOMAIN ms : ms[m].canonical_supplier_id = supplier_id

\* Mutant: the relationship cascades the delete to the supplier's mappings.
DeleteCommitCascade(r) ==
    /\ req[r].kind = "delete"
    /\ req[r].pc = "commit"
    /\ CanWrite(r)
    /\ Reply(r, [op |-> "delete", code |-> 200, status |-> "deleted"])
    /\ suppliers' = suppliers \ {req[r].supplier_id}
    /\ mappings' = SelectSeq(mappings,
                             LAMBDA row : row.canonical_supplier_id # req[r].supplier_id)
    /\ UNCHANGED <<groups, items, events, issues, clock, writer>>

\* session.delete(supplier); session.commit().  The flush first detaches the
\* rows of Supplier.mappings; canonical_supplier_id is NOT NULL (models.py),
\* so with a referencing mapping the UPDATE fails, IntegrityError is not
\* caught, the transaction is rolled back and the caller gets a 500.
DeleteCommit(r) ==
    /\ req[r].kind = "delete"
    /\ req[r].pc = "commit"
    /\ CanWrite(r)
    /\ IF Referenced(mappings, req[r].supplier_id)
       THEN /\ Reply(r, [op |-> "delete", code |-> 500, detail |-> "integrity error"])
            /\ UNCHANGED suppliers
       ELSE /\ Reply(r, [op |-> "delete", code |-> 200, status |-> "deleted"])
            /\ suppliers' = suppliers \ {req[r].supplier_id}
    /\ UNCHANGED <<groups, items, mappings, events, issues, clock, writer>>

(* -------------------- GET /api/admin/mappings/pending ----------------- *)
\* Mutant: newest first.
OrderedByDesc(out, ms) ==
    \A i, j \in DOMAIN out : i < j => ms[out[i]].created_at >= ms[out[j]].created_at

\* ORDER BY created_at: rows with equal created_at come in any order.
OrderedBy(out, ms) ==
    \A i, j \in DOMAIN out : i < j => ms[out[i]].created_at <= ms[out[j]].created_at

\* The row of the response built from mapping m.
PendingRow(ms, sups, m) ==
    [id |-> m, owner_id |-> ms[m].owner_id, packet_id |-> ms[m].packet_id,
     inn_norm |-> ms[m].inn_norm, std_supplier_raw |-> ms[m].std_supplier_raw,
     status |-> ms[m].status, canonical_supplier_id |-> ms[m].canonical_supplier_id,
     canonical_supplier |->
        IF ms[m].canonical_supplier_id \in sups
        THEN SupplierRows[ms[m].canonical_supplier_id].supplier ELSE <<>>,
     created_at |-> ms[m].created_at]

\* The bodies list_pending_mappings may return.
list_pending_mappings(ms, sups) ==
    LET pending == {m \in DOMAIN ms : ms[m].status = "PENDING"}
        orders == {out \in [1..Cardinality(pending) -> pending] :
                     /\ \A i, j \in DOMAIN out : i # j => out[i] # out[j]
                     /\ OrderedBy(out, ms)}
    IN {[i \in DOMAIN out |-> PendingRow(ms, sups, out[i])] : out \in orders}

ListPending(r, cookie, alone) ==
    /\ Admit(r, alone)
    /\ get_admin_user(cookie, clock) # None
    /\ \E body \in list_pending_mappings(mappings, suppliers) :
          Reply(r, [op |-> "list_pending", code |-> 200, mappings |-> body])
    /\ UNCHANGED <<db, clock, writer>>

(* --------------------------- storage faults --------------------------- *)
\* The request is at a statement that writes to the database.
AtWrite(r) ==
    \/ req[r].kind = "import" /\ Len(req[r].items) > 0
    \/ req[r].kind \in {"propose", "approve", "reject", "issue", "delete"}
          /\ req[r].pc = "commit"

\* The rows of the batch handled before the current statement.
RowsDone(r) == IF req[r].kind = "import" THEN req[r].idx - 1 ELSE 0

\* Mutant: the UPDATE of the mapping was committed on its own before the event
\* was written, so a fault leaves it in place.
RolledBackKeepsMapping(r, name, table) ==
    IF name = "mappings" /\ req[r].kind \in {"approve", "reject"}
    THEN [table EXCEPT ![req[r].mapping_id] = ApplyUpdate(@, req[r].changes)]
    ELSE table

\* What the rollback of r's transaction leaves in a table: the committed rows,
\* nothing of its own.
RolledBack(r, name, table) == table

\* A statement or the COMMIT raises (disk full, I/O error): no handler catches
\* it, get_session closes the Session, which rolls the transaction back, and
\* the caller gets a 500.
StorageFault(r) ==
    /\ AtWrite(r)
    /\ CanWrite(r)
    /\ groups' = RolledBack(r, "groups", groups)
    /\ items' = RolledBack(r, "items", items)
    /\ mappings' = RolledBack(r, "mappings", mappings)
    /\ events' = RolledBack(r, "events", events)
    /\ writer' = 0
    /\ Reply(r, [op |-> req[r].kind, code |-> 500, detail |-> "storage fault"])
    /\ UNCHANGED <<suppliers, issues, clock>>

\* The write lock stays with another transaction past the busy timeout:
\* OperationalError "database is locked", uncaught, a 500 for the caller.
WriteTimeout(r) ==
    /\ AtWrite(r)
    /\ LockedOut(r)
    /\ Reply(r, [op |-> req[r].kind, code |-> 500, detail |-> "database is locked"])
    /\ UNCHANGED <<db, clock, writer>>

(* ------------------------------ claims -------------------------------- *)
Decided == {"APPROVED", "REJECTED"}

EventsOf(mapping_id) == {e \in DOMAIN events : events[e].mapping_id = mapping_id}

\* C1: every mapping is created PENDING, the only status changes are
\* PENDING -> APPROVED and PENDING -> REJECTED, and an APPROVED or REJECTED
\* mapping keeps its status (and is never removed) in every later state.
C1_TerminalStatus ==
    [][/\ \A i \in DOMAIN mappings :
            /\ i \in DOMAIN mappings'
            /\ mappings[i].status \in Decided => mappings'[i].status = mappings[i].status
            /\ mappings'[i].status # mappings[i].status =>
                  mappings[i].status = "PENDING" /\ mappings'[i].status \in Decided
       /\ \A i \in DOMAIN mappings' \ DOMAIN mappings : mappings'[i].status = "PENDING"]_vars

\* An APPROVED and a REJECTED mapping exist and a later approve/reject on a
\* decided mapping was refused.
C1_Witness ==
    /\ \E i, j \in DOMAIN mappings :
          mappings[i].status = "APPROVED" /\ mappings[j].status = "REJECTED"
    /\ resp[1].op \in {"approve", "reject"}
    /\ resp[1].code = 404

\* C2: with requests handled one after another, a decided mapping has exactly
\* one ModerationEvent with its id, whose decision is the mapping's status,
\* and a PENDING mapping has none.
C2_OneEventPerDecision ==
    \A m \in DOMAIN mappings :
        IF mappings[m].status = "PENDING"
        THEN EventsOf(m) = {}
        ELSE /\ Cardinality(EventsOf(m)) = 1
             /\ \A e \in EventsOf(m) : events[e].decision = mappings[m].status

\* The second mapping of a group decided, the first still PENDING, one event.
C2_Witness ==
    /\ Len(mappings) = 2
    /\ mappings[1].status = "PENDING"
    /\ mappings[2].status \in Decided
    /\ mappings[2].group_id # 2
    /\ Len(events) = 1

\* C3: approve or reject on a mapping id that does not exist or is not
\* PENDING answers 404, changes no mapping and appends no event.
C3_NotPendingRefused ==
    [][\A r \in Reqs :
          (/\ req[r].kind \in {"approve", "reject"}
           /\ req[r].pc = "check"
           /\ req'[r] # req[r]
           /\ \/ req[r].mapping_id \notin DOMAIN mappings
              \/ mappings[req[r].mapping_id].status # "PENDING")
          => /\ resp'[r].code = 404
             /\ req'[r] = Idle
             /\ mappings' = mappings
             /\ events' = events]_vars

\* A second approve of an APPROVED mapping, or a reject of a REJECTED one, was
\* refused and the ledger holds the one event of the first decision.
C3_Witness ==
    \E m \in DOMAIN mappings :
        /\ mappings[m].status \in Decided
        /\ resp[1].code = 404
        /\ resp[1].op = (IF mappings[m].status = "APPROVED" THEN "approve" ELSE "reject")
        /\ resp[1].mapping_id = m
        /\ Cardinality(EventsOf(m)) = 1

\* C4: reject on a PENDING mapping with a missing or empty reason code
\* answers 400, leaves the mapping PENDING and unchanged, appends no event.
C4_ReasonRequired ==
    [][\A r \in Reqs :
          (/\ req[r].kind = "reject"
           /\ req[r].pc = "check"
           /\ req'[r] # req[r]
           /\ req[r].mapping_id \in DOMAIN mappings
           /\ mappings[req[r].mapping_id].status = "PENDING"
           /\ LET code == IF req[r].payload # None
                          THEN Some(req[r].payload[1].reason_code)
                          ELSE req[r].reason
              IN code = None \/ code[1] = "")
          => /\ resp'[r].code = 400
             /\ req'[r] = Idle
             /\ mappings' = mappings
             /\ mappings'[req[r].mapping_id].status = "PENDING"
             /\ events' = events]_vars

\* A reject without a reason was answered 400 and its mapping is PENDING.
C4_Witness ==
    /\ resp[1].op = "reject"
    /\ resp[1].code = 400
    /\ mappings[resp[1].mapping_id].status = "PENDING"
    /\ EventsOf(resp[1].mapping_id) = {}

\* C5: the status change and the ledger write are persisted together or not
\* at all, also when the commit fails: no decided mapping without an event,
\* no event for a missing or PENDING mapping.
C5_DecisionAtomic ==
    /\ \A m \in DOMAIN mappings : mappings[m].status \in Decided => EventsOf(m) # {}
    /\ \A e \in DOMAIN events :
          /\ events[e].mapping_id \in DOMAIN mappings
          /\ mappings[events[e].mapping_id].status \in Decided

\* The commit of an approve or reject failed: a mapping is still PENDING with
\* no event, beside a decided one.
C5_Witness ==
    /\ resp[1].op \in {"approve", "reject"}
    /\ resp[1].code = 500
    /\ \E m \in DOMAIN mappings : mappings[m].status = "PENDING" /\ EventsOf(m) = {}
    /\ \E m \in DOMAIN mappings : mappings[m].status \in Decided

GroupKey(g) == <<g.owner_id, g.packet_id, g.inn_norm, g.std_supplier_raw>>
ItemKey(i) == <<i.owner_id, i.packet_id, i.inn_norm, i.std_supplier>>

GroupsWithKey(k) == {g \in DOMAIN groups : GroupKey(groups[g]) = k}
ItemsWithKey(k) == {i \in DOMAIN items : ItemKey(items[i]) = k}

\* C6: after import requests handled one after another, every key of an
\* imported row has exactly one group, whose items_count is the number of
\* price items imported with that key.
C6_OneGroupPerKey ==
    /\ \A i \in DOMAIN items :
          /\ Cardinality(GroupsWithKey(ItemKey(items[i]))) = 1
          /\ \A g \in GroupsWithKey(ItemKey(items[i])) :
                groups[g].items_count = Cardinality(ItemsWithKey(ItemKey(items[i])))
    /\ \A g \in DOMAIN groups : ItemsWithKey(GroupKey(groups[g])) # {}

\* One batch of identical rows gave one group counting them all, beside a
\* group with a NULL INN.
C6_Witness ==
    /\ resp[1].op = "import"
    /\ resp[1].code = 200
    /\ resp[1].imported >= 2
    /\ \E g \in DOMAIN groups : groups[g].items_count = resp[1].imported
    /\ \E g \in DOMAIN groups : groups[g].inn_norm = None

\* The group key of an import row.
RowKey(p) == <<p.ownerId, p.packetId, normalize_inn(p.inn)[1], p.std_supplier>>

RowKeys(batch) == {RowKey(batch[i]) : i \in DOMAIN batch}

\* C7: under any interleaving of concurrent import requests, also for keys
\* with a NULL INN, no two group rows have the same key.
C7_NoDuplicateGroup ==
    \A g, h \in DOMAIN groups : GroupKey(groups[g]) = GroupKey(groups[h]) => g = h

\* Two import requests for the NULL-INN key of an existing group overlap: one
\* holds the write transaction and has incremented the group's row, the other
\* has not yet got to its lookup.
C7_Witness ==
    /\ \E g \in DOMAIN groups : groups[g].inn_norm = None /\ groups[g].items_count = 1
    /\ req[1].kind = "import"
    /\ req[2].kind = "import"
    /\ writer = 1
    /\ req[2].idx = 1
    /\ \E g \in DOMAIN req[1].tgroups :
          /\ req[1].tgroups[g].inn_norm = None
          /\ req[1].tgroups[g].items_count = 2
          /\ GroupKey(req[1].tgroups[g]) \in RowKeys(req[2].items)

\* The items_count of the group with key k in table gs, 0 when there is none.
KeyCount(gs, k) ==
    LET hits == {g \in DOMAIN gs : GroupKey(gs[g]) = k}
    IN IF hits = {} THEN 0 ELSE gs[CHOOSE g \in hits : TRUE].items_count

RowsWithKey(batch, k) == {i \in DOMAIN batch : RowKey(batch[i]) = k}

\* C8: an import request that runs while another import request for the same
\* group key is in progress ends without an error (storage faults aside) and
\* with its rows counted: the group's items_count grows by its rows.
C8_RaceIsNotAnError ==
    [][\A r \in Reqs :
          (/\ req[r].kind = "import"
           /\ req'[r] = Idle
           /\ \E q \in Reqs \ {r} :
                 /\ req[q].kind = "import"
                 /\ RowKeys(req[q].items) \cap RowKeys(req[r].items) # {}
           /\ ~(resp'[r].code = 500 /\ resp'[r].detail = "storage fault"))
          => /\ resp'[r].code = 200
             /\ \A k \in RowKeys(req[r].items) :
                   KeyCount(groups', k)
                      = KeyCount(groups, k) + Cardinality(RowsWithKey(req[r].items, k))]_vars

\* C9: each row of a batch is committed before the next is processed: when a
\* storage fault ends the request at row k > 1 (or at the final commit), rows
\* 1..k-1 are in the price item table and the response carries the count k-1.
C9_RowsCommittedBeforeFault ==
    [][\A r \in Reqs :
          (/\ req[r].kind = "import"
           /\ req'[r] = Idle
           /\ resp'[r].code = 500
           /\ req[r].idx > 1)
          => LET done == req[r].idx - 1
                 first == Len(items') - done
             IN /\ first >= 0
                /\ \A i \in 1..done :
                      LET n == normalize_inn(req[r].items[i].inn)
                      IN items'[first + i]
                            = NewPriceItem(req[r].items[i], n[1], n[2], req[r].now)
                /\ "imported" \in DOMAIN resp'[r]
                /\ resp'[r].imported = done]_vars

\* C10: proposeMapping with an unknown or expired token answers 401, with a
\* missing or out-of-scope group or a missing supplier 404, and then changes
\* no table; a mapping that is created is on a group of the token's scope.
C10_ProposeRefused ==
    [][\A r \in Reqs :
          /\ (/\ req[r].kind = "propose"
              /\ req[r].pc = "check"
              /\ req'[r] # req[r]
              /\ \/ req[r].token \notin DOMAIN SellerTokens
                 \/ SellerTokens[req[r].token].expires_at < clock)
             => resp'[r].code = 401 /\ req'[r] = Idle /\ db' = db
          /\ (/\ req[r].kind = "propose"
              /\ req[r].pc = "check"
              /\ req'[r] # req[r]
              /\ req[r].token \in DOMAIN SellerTokens
              /\ SellerTokens[req[r].token].expires_at >= clock
              /\ \/ req[r].group_id \notin DOMAIN groups
                 \/ groups[req[r].group_id].owner_id # SellerTokens[req[r].token].owner_id
                 \/ groups[req[r].group_id].packet_id # SellerTokens[req[r].token].packet_id
                 \/ req[r].canonical_supplier_id \notin suppliers)
             => resp'[r].code = 404 /\ req'[r] = Idle /\ db' = db
          /\ (/\ req[r].kind = "propose"
              /\ req'[r] # req[r]
              /\ mappings' # mappings)
             => LET m == mappings'[Len(mappings')]
                    seller == SellerTokens[req[r].token]
                IN /\ groups[m.group_id].owner_id = seller.owner_id
                   /\ groups[m.group_id].packet_id = seller.packet_id]_vars

\* Beside a mapping created in scope, a proposal was refused although groups
\* and suppliers exist.
C10_Witness ==
    /\ resp[1].op = "propose"
    /\ resp[1].code \in {401, 404}
    /\ groups # <<>>
    /\ mappings # <<>>

(* --------------------------- specifications --------------------------- *)
MappingIds == 1..MaxMappings
GroupIds == 1..(MaxCoreItems + 1)
SupplierIds == {1, 2, 3}

ImportStep(r) ==
    \/ ImportRow(r)
    \/ ImportCommit(r)
    \/ StorageFault(r)

ModerationStep(r) ==
    \/ ProposeCheck(r)
    \/ ProposeCommit(r)
    \/ ApproveCheck(r)
    \/ ApproveCommit(r)
    \/ RejectCheck(r)
    \/ RejectCommit(r)

\* Requests one after another (a request starts when none is in progress):
\* imports, proposals and moderation.
Next ==
    \/ Tick
    \/ \E batch \in CoreBatches : ImportStart(1, batch, TRUE, MaxCoreItems)
    \/ \E t \in TokenInputs, g \in GroupIds, s \in SupplierIds : ProposeStart(1, t, g, s, TRUE)
    \/ \E m \in MappingIds, c \in AdminCookies : ApproveStart(1, m, c, TRUE)
    \/ \E m \in MappingIds, p \in RejectPayloads, q \in RejectReasons, c \in AdminCookies :
          RejectStart(1, m, p, q, c, TRUE)
    \/ \E op \in {"approve", "reject"}, c \in AdminCookies : AdminUnauthorized(1, op, c, TRUE)
    \/ \E r \in Reqs : ImportStep(r)
    \/ \E r \in Reqs : ModerationStep(r)

Spec == Init /\ [][Next]_vars

\* Import requests one after another.
NextImport ==
    \/ Tick
    \/ \E batch \in Batches : ImportStart(1, batch, TRUE, MaxItems)
    \/ \E r \in Reqs : ImportStep(r)

SpecImport == Init /\ [][NextImport]_vars

\* Import requests handled concurrently by the worker threads.
NextConcImport ==
    \/ Tick
    \/ \E r \in Reqs, batch \in Batches : ImportStart(r, batch, FALSE, MaxItems)
    \/ \E r \in Reqs : ImportStep(r)
    \/ \E r \in Reqs : WriteTimeout(r)

SpecConcImport == Init /\ [][NextConcImport]_vars

\* The import that fills the price list before moderation starts: one group
\* in scope (A, P) and one in scope (B, P).
SeedBatch ==
    << [ownerId |-> "A", packetId |-> "P", inn |-> Some(INN10Formatted), std_supplier |-> "Acme"],
       [ownerId |-> "B", packetId |-> "P", inn |-> None, std_supplier |-> "Acme"] >>

IssueComments == {"wrong group"}

\* A signed, unexpired admin_session cookie.
ValidCookie == Some([user |-> "admin", signed |-> TRUE, exp |-> MaxClock + 1])

\* Tokens of the two scopes that have groups.
DeskTokens == {"tokA", "tokB"}

\* Reject bodies that carry a reason code.
DeskRejectPayloads == {p \in RejectPayloads : p # None /\ p[1].reason_code # ""}

\* Moderation, requests one after another on a price list imported once:
\* proposals, decisions and the two listings.
NextDesk ==
    \/ TickDesk
    \/ ImportStart(1, SeedBatch, TRUE, Len(SeedBatch))
    \/ \E t \in DeskTokens, g \in DOMAIN SeedBatch, s \in SupplierIds :
          ProposeStart(1, t, g, s, TRUE)
    \/ \E m \in MappingIds : ApproveStart(1, m, ValidCookie, TRUE)
    \/ \E m \in MappingIds, p \in DeskRejectPayloads : RejectStart(1, m, p, None, ValidCookie, TRUE)
    \/ \E t \in DeskTokens : ListGroups(1, t, TRUE)
    \/ ListPending(1, ValidCookie, TRUE)
    \/ \E r \in Reqs : ImportStep(r)
    \/ \E r \in Reqs : ModerationStep(r)

SpecDesk == Init /\ [][NextDesk]_vars

\* The seller-facing operations with every kind of token, requests one after
\* another, next to rejections that leave labels and internal comments.
NextSeller ==
    \/ Tick
    \/ ImportStart(1, SeedBatch, TRUE, Len(SeedBatch))
    \/ \E t \in TokenInputs, g \in GroupIds, s \in SupplierIds : ProposeStart(1, t, g, s, TRUE)
    \/ \E t \in TokenInputs, g \in GroupIds, c \in IssueComments : IssueStart(1, t, g, c, TRUE)
    \/ \E t \in TokenInputs : ListGroups(1, t, TRUE)
    \/ \E q \in SearchQueries : SearchSuppliers(1, q, TRUE)
    \/ \E m \in MappingIds, p \in DeskRejectPayloads : RejectStart(1, m, p, None, ValidCookie, TRUE)
    \/ \E r \in Reqs : ImportStep(r)
    \/ \E r \in Reqs : ProposeCheck(r) \/ ProposeCommit(r)
    \/ \E r \in Reqs : IssueCheck(r) \/ IssueCommit(r)
    \/ \E r \in Reqs : RejectCheck(r) \/ RejectCommit(r)

SpecSeller == Init /\ [][NextSeller]_vars

\* The supplier directory next to proposals, handled concurrently by the
\* worker threads.
NextDirectory ==
    \/ Tick
    \/ ImportStart(1, SeedBatch, TRUE, Len(SeedBatch))
    \/ \E r \in Reqs, s \in SupplierIds : ProposeStart(r, "tokA", 1, s, FALSE)
    \/ \E r \in Reqs, s \in SupplierIds : DeleteStart(r, s, ValidCookie, FALSE)
    \/ \E r \in Reqs, c \in AdminCookies : AdminUnauthorized(r, "delete", c, FALSE)
    \/ \E r \in Reqs : ImportStep(r)
    \/ \E r \in Reqs : ProposeCheck(r) \/ ProposeCommit(r)
    \/ \E r \in Reqs : DeleteCheck(r) \/ DeleteCommit(r)
    \/ \E r \in Reqs : WriteTimeout(r)

SpecDirectory == Init /\ [][NextDirectory]_vars

(* ----------------- claims on proposals and the resolver --------------- *)
\* C11: a successful proposeMapping adds exactly one mapping, PENDING, on the
\* requested group, and changes no stored mapping, group or ModerationEvent;
\* a proposal with a valid token, a group of its scope and a supplier of the
\* directory is never refused because of the mappings the group already has.
C11_ProposeFrame ==
    [][\A r \in Reqs :
          /\ (req[r].kind = "propose" /\ req[r].pc = "commit"
               /\ resp'[r].op = "propose" /\ resp'[r].code = 200)
             => /\ Len(mappings') = Len(mappings) + 1
                /\ \A m \in DOMAIN mappings : mappings'[m] = mappings[m]
                /\ mappings'[Len(mappings')].status = "PENDING"
                /\ mappings'[Len(mappings')].group_id = req[r].obj.group_id
                /\ resp'[r].mapping_id = Len(mappings')
                /\ groups' = groups
                /\ events' = events
          /\ (/\ req[r].kind = "propose" /\ req[r].pc = "check"
               /\ req'[r] # req[r]
               /\ get_seller_context(req[r].token, clock) = 0
               /\ ~GroupOutOfScope(groups, req[r].group_id, SellerTokens[req[r].token])
               /\ req[r].canonical_supplier_id \in suppliers)
             => /\ req'[r].kind = "propose"
                /\ req'[r].pc = "commit"
                /\ req'[r].obj.group_id = req[r].group_id]_vars

\* A second mapping was proposed for a group whose first mapping is APPROVED.
C11_Witness ==
    /\ Len(mappings) = 2
    /\ mappings[1].group_id = mappings[2].group_id
    /\ mappings[1].status = "APPROVED"
    /\ mappings[2].status = "PENDING"
    /\ resp[1].op = "propose"
    /\ resp[1].code = 200

\* The mappings of a group, and those among them created last (recency is
\* the stored created_at, the column the resolver orders by).
MappingsOf(group_id) == {m \in DOMAIN mappings : mappings[m].group_id = group_id}

NewestOf(group_id) ==
    {m \in MappingsOf(group_id) :
        \A n \in MappingsOf(group_id) : mappings[n].created_at <= mappings[m].created_at}

\* C12: resolveStatus returns UNMAPPED with no canonical supplier exactly
\* when the group has no mapping; otherwise it returns the status and the
\* supplier id of the group's most recently created mapping, whatever was
\* decided on older mappings and in whatever order.
C12_ResolverLatestMapping ==
    [][\A r \in Reqs :
          (resp'[r] # resp[r] /\ resp'[r].op = "list_groups" /\ resp'[r].code = 200)
          => \A g \in DOMAIN resp'[r].groups :
                LET out == resp'[r].groups[g]
                IN /\ out.id = g
                   /\ (out.status = "UNMAPPED") <=> (MappingsOf(g) = {})
                   /\ MappingsOf(g) = {}
                        => out.canonical_supplier_id = None /\ out.canonical_supplier = None
                   /\ MappingsOf(g) # {}
                        => \E m \in NewestOf(g) :
                              /\ out.status = mappings[m].status
                              /\ out.canonical_supplier_id = Some(mappings[m].canonical_supplier_id)]_vars

\* A group whose first mapping is REJECTED and whose second, created later
\* for another supplier, is APPROVED, the older one decided last: the
\* listing shows APPROVED with the second's supplier.
C12_Witness ==
    /\ Len(mappings) = 2
    /\ mappings[1].group_id = 1 /\ mappings[2].group_id = 1
    /\ mappings[1].status = "REJECTED" /\ mappings[2].status = "APPROVED"
    /\ mappings[1].created_at < mappings[2].created_at
    /\ mappings[1].canonical_supplier_id # mappings[2].canonical_supplier_id
    /\ Len(events) = 2 /\ events[1].mapping_id = 2 /\ events[2].mapping_id = 1
    /\ resp[1].op = "list_groups" /\ resp[1].code = 200
    /\ 1 \in DOMAIN resp[1].groups
    /\ resp[1].groups[1].status = "APPROVED"
    /\ resp[1].groups[1].canonical_supplier_id = Some(mappings[2].canonical_supplier_id)

\* The REJECTED events of a group, and those among them decided last.
RejectEventsOf(group_id) ==
    {e \in DOMAIN events : /\ events[e].supplier_group_id = group_id
                            /\ events[e].decision = "REJECTED"}

LastRejectOf(group_id) ==
    {e \in RejectEventsOf(group_id) :
        \A f \in RejectEventsOf(group_id) : events[f].decided_at <= events[e].decided_at}

\* C13: when a group resolves to REJECTED, the reason label and the
\* latest-decision timestamp returned are the ones stored in the group's
\* REJECTED ModerationEvent with the greatest decision time (the label as
\* stored in the event, the timestamp in place of the mapping's updated_at);
\* when the status is not REJECTED no reason label is returned.
C13_RejectMetadataFromLedger ==
    [][\A r \in Reqs :
          (resp'[r] # resp[r] /\ resp'[r].op = "list_groups" /\ resp'[r].code = 200)
          => \A g \in DOMAIN resp'[r].groups :
                LET out == resp'[r].groups[g]
                IN /\ out.status = "REJECTED"
                        => \E e \in LastRejectOf(g) :
                              /\ out.reject_reason_label = events[e].reject_reason_label
                              /\ out.latest_decision_at = Some(events[e].decided_at)
                   /\ out.status # "REJECTED" => out.reject_reason_label = None]_vars

\* The group's newest mapping was rejected first, with a code that has no
\* label, and its older mapping later with WRONG_INN: the listing shows the
\* later event's label and decision time, not the newest mapping's updated_at.
C13_Witness ==
    /\ Len(mappings) = 2 /\ Len(events) = 2
    /\ mappings[1].group_id = 1 /\ mappings[2].group_id = 1
    /\ mappings[1].created_at < mappings[2].created_at
    /\ events[1].mapping_id = 2 /\ events[2].mapping_id = 1
    /\ events[1].decision = "REJECTED" /\ events[2].decision = "REJECTED"
    /\ events[1].decided_at < events[2].decided_at
    /\ events[1].reject_reason_label = None
    /\ resp[1].op = "list_groups" /\ resp[1].code = 200
    /\ 1 \in DOMAIN resp[1].groups
    /\ resp[1].groups[1].status = "REJECTED"
    /\ resp[1].groups[1].reject_reason_label = Some(REJECTION_REASONS["WRONG_INN"])
    /\ resp[1].groups[1].latest_decision_at = Some(events[2].decided_at)
    /\ resp[1].groups[1].latest_decision_at # Some(mappings[2].updated_at)

\* C14: the ModerationEvent written by a successful reject with reason code c
\* carries the resolved label, the table's label when c is in the code table
\* and c itself when it is not, and that label is the reason label returned
\* to the caller of reject.
C14_EventCarriesResolvedLabel ==
    [][\A r \in Reqs :
          (req[r].kind = "reject" /\ req[r].pc = "commit"
           /\ resp'[r].op = "reject" /\ resp'[r].code = 200)
          => LET ev == events'[Len(events')]
                 c == ev.reject_reason_code[1]
             IN /\ Len(events') = Len(events) + 1
                /\ ev.reject_reason_label
                      = Some(IF c \in DOMAIN REJECTION_REASONS THEN REJECTION_REASONS[c] ELSE c)
                /\ ev.reject_reason_label = Some(resp'[r].reason_label)]_vars

PendingIds == {m \in DOMAIN mappings : mappings[m].status = "PENDING"}

\* C15: listPendingMappings returns exactly the PENDING mappings, each once,
\* oldest first (a PENDING mapping created before another is listed before
\* it); a mapping that has been decided is not PENDING again, so it never
\* comes back into the list.
C15_PendingQueueFIFO ==
    [][/\ \A r \in Reqs :
             (resp'[r] # resp[r] /\ resp'[r].op = "list_pending" /\ resp'[r].code = 200)
             => LET body == resp'[r].mappings
                IN /\ {body[i].id : i \in DOMAIN body} = PendingIds
                   /\ Len(body) = Cardinality(PendingIds)
                   /\ \A i \in DOMAIN body : body[i].status = "PENDING"
                   /\ \A i, j \in DOMAIN body :
                         mappings[body[i].id].created_at < mappings[body[j].id].created_at
                            => i < j
       /\ \A m \in DOMAIN mappings :
             mappings[m].status # "PENDING"
                => m \in DOMAIN mappings' /\ mappings'[m].status # "PENDING"]_vars

\* Two PENDING mappings created at different times, listed oldest first.
C15_Witness ==
    /\ resp[1].op = "list_pending" /\ resp[1].code = 200
    /\ Len(resp[1].mappings) = 2
    /\ resp[1].mappings[1].id = 1 /\ resp[1].mappings[2].id = 2
    /\ resp[1].mappings[1].created_at < resp[1].mappings[2].created_at
    /\ PendingIds = {1, 2}

(* ------------------ claims on the supplier directory ------------------ *)
\* C16: a Supplier that a SupplierMapping references is never removed, so in
\* every reachable state the canonical supplier id of every mapping is the
\* id of a Supplier of the directory.
C16_MappingsReferToSuppliers ==
    \A m \in DOMAIN mappings : mappings[m].canonical_supplier_id \in suppliers

(* ------------------------- claims on the ledger ----------------------- *)
\* C17: the ledger is append-only: in every step every stored
\* ModerationEvent stays, under its id, with every field unchanged.
C17_LedgerAppendOnly ==
    [][\A e \in DOMAIN events :
          e \in DOMAIN events' /\ events'[e] = events[e]]_vars

\* Two decisions are in the ledger and a further reject, of a mapping that is
\* already decided, has been refused after them.
C17_Witness ==
    /\ Len(events) = 2
    /\ events[1].decision = "REJECTED"
    /\ events[2].decision = "APPROVED"
    /\ events[1].decided_at < events[2].decided_at
    /\ resp[1].op = "reject" /\ resp[1].code = 404

(* ---------------------- claims on the seller scope -------------------- *)
\* The token is unknown, or its expiry time is earlier than the time now.
TokenRefused(token, now) ==
    \/ token \notin DOMAIN SellerTokens
    \/ SellerTokens[token].expires_at < now

InScope(row, token) ==
    /\ row.owner_id = SellerTokens[token].owner_id
    /\ row.packet_id = SellerTokens[token].packet_id

\* C18: listGroupsForScope, proposeMapping and create issue answer 401 and
\* change no table when the token is unknown or its expiry time is earlier
\* than the current time; with a known, unexpired token they list exactly the
\* groups of the token's (owner, packet) scope and store a mapping or an
\* issue only for a group of that scope.
C18_SellerTokenScope ==
    [][\A r \in Reqs :
          /\ (resp'[r] # resp[r] /\ resp'[r].op = "list_groups")
             => /\ db' = db
                /\ IF TokenRefused(resp'[r].token, clock)
                   THEN resp'[r].code = 401
                   ELSE /\ resp'[r].code = 200
                        /\ DOMAIN resp'[r].groups
                              = {g \in DOMAIN groups : InScope(groups[g], resp'[r].token)}
                        /\ \A g \in DOMAIN resp'[r].groups :
                              InScope(resp'[r].groups[g], resp'[r].token)
          /\ (req[r].kind \in {"propose", "issue"} /\ req[r].pc = "check"
               /\ req'[r] # req[r] /\ TokenRefused(req[r].token, clock))
             => /\ resp'[r].code = 401
                /\ req'[r] = Idle
                /\ db' = db
          /\ (req[r].kind = "propose" /\ req[r].pc = "commit" /\ mappings' # mappings)
             => LET new == mappings'[Len(mappings')]
                IN /\ InScope(new, req[r].token)
                   /\ new.group_id \in DOMAIN groups
                   /\ InScope(groups[new.group_id], req[r].token)
          /\ (req[r].kind = "issue" /\ req[r].pc = "commit" /\ issues' # issues)
             => LET new == issues'[Len(issues')]
                IN /\ InScope(new, req[r].token)
                   /\ new.group_id \in DOMAIN groups
                   /\ InScope(groups[new.group_id], req[r].token)]_vars

\* An issue and a mapping were stored while token tokOld was still valid; it
\* has expired since, and a listing with it has been refused.
C18_Witness ==
    /\ resp[1].op = "list_groups" /\ resp[1].code = 401
    /\ resp[1].token = "tokOld"
    /\ SellerTokens["tokOld"].expires_at < clock
    /\ Len(issues) = 1 /\ issues[1].created_at <= SellerTokens["tokOld"].expires_at
    /\ Len(mappings) >= 1

\* Internal comments an admin may have passed to reject.
InternalComments == {None, Some("note"), Some("not for the seller")}

\* The ledgers that differ from the stored one at most in the internal
\* comments of its rejections.
CommentVariants ==
    { [e \in DOMAIN events |->
          IF events[e].decision = "REJECTED"
          THEN [events[e] EXCEPT !.reject_comment_internal = f[e]]
          ELSE events[e]] : f \in [DOMAIN events -> InternalComments] }

\* What the seller-facing operations return, for every input, when the
\* ledger is evs and the other tables are the stored ones.
SellerView(evs) ==
    [list_groups |->
        [t \in TokenInputs |->
            IF get_seller_context(t, clock) # 0 THEN {get_seller_context(t, clock)}
            ELSE list_groups(groups, mappings, evs, suppliers, SellerTokens[t])],
     search_suppliers |-> [q \in SearchQueries |-> search_suppliers(suppliers, q)],
     create_mapping |->
        [i \in TokenInputs \X GroupIds \X SupplierIds |->
            IF ProposeRefusal(i[1], i[2], i[3], clock, groups, suppliers) # 0
            THEN [code |-> ProposeRefusal(i[1], i[2], i[3], clock, groups, suppliers)]
            ELSE [code |-> 200, status |-> "PENDING", mapping_id |-> Len(mappings) + 1]],
     create_issue |->
        [i \in TokenInputs \X GroupIds \X IssueComments |->
            IF IssueRefusal(i[1], i[2], clock, groups) # 0
            THEN [code |-> IssueRefusal(i[1], i[2], clock, groups)]
            ELSE [code |-> 200, id |-> Len(issues) + 1,
                  issue |-> NewIssue(i[2], groups[i[2]], SellerTokens[i[1]], i[3], clock)]]]

\* What a seller can see next to rejections, requests one after another at
\* one clock reading: proposals, rejections with and without an internal
\* comment, and every seller-facing operation.
NextView ==
    \/ ImportStart(1, SeedBatch, TRUE, Len(SeedBatch))
    \/ \E t \in DeskTokens, g \in DOMAIN SeedBatch, s \in SupplierIds :
          ProposeStart(1, t, g, s, TRUE)
    \/ \E m \in MappingIds, p \in DeskRejectPayloads : RejectStart(1, m, p, None, ValidCookie, TRUE)
    \/ \E t \in DeskTokens, g \in DOMAIN SeedBatch, c \in IssueComments :
          IssueStart(1, t, g, c, TRUE)
    \/ \E t \in TokenInputs : ListGroups(1, t, TRUE)
    \/ \E q \in SearchQueries : SearchSuppliers(1, q, TRUE)
    \/ \E r \in Reqs : ImportStep(r)
    \/ \E r \in Reqs : ProposeCheck(r) \/ ProposeCommit(r)
    \/ \E r \in Reqs : IssueCheck(r) \/ IssueCommit(r)
    \/ \E r \in Reqs : RejectCheck(r) \/ RejectCommit(r)

SpecView == Init /\ [][NextView]_vars

\* C19: the internal comment of a rejection is never exposed to the seller:
\* in two states that differ only in the internal comments passed to reject,
\* listGroupsForScope, proposeMapping, create issue and the supplier search
\* return the same output for every input.
C19_InternalCommentHidden ==
    LET stored == SellerView(events)
    IN \A evs \in CommentVariants : SellerView(evs) = stored

\* A rejection with an internal comment is in the ledger and the seller has
\* listed the rejected group.
C19_Witness ==
    /\ \E e \in DOMAIN events :
          /\ events[e].decision = "REJECTED"
          /\ events[e].reject_comment_internal # None
          /\ resp[1].op = "list_groups" /\ resp[1].code = 200
          /\ events[e].supplier_group_id \in DOMAIN resp[1].groups
          /\ resp[1].groups[events[e].supplier_group_id].status = "REJECTED"
          /\ resp[1].groups[events[e].supplier_group_id].reject_reason_label # None

(* ------------------- claims on resubmitted proposals ------------------ *)
\* C20: after a group's only mapping, to supplier X, has been rejected, a
\* proposal of the same group to supplier Y made afterwards (at a later
\* clock reading) succeeds with status PENDING; the group then has two
\* mappings, the first still REJECTED, the ledger still holds exactly the one
\* REJECTED event, and resolveStatus shows PENDING with supplier Y and no
\* reject reason label.
C20_ResubmitAfterReject ==
    [][\A r \in Reqs :
          /\ (/\ req[r].kind = "propose" /\ req[r].pc = "commit" /\ req'[r] = Idle
               /\ \E m \in DOMAIN mappings :
                     /\ MappingsOf(req[r].obj.group_id) = {m}
                     /\ mappings[m].status = "REJECTED")
             => LET g == req[r].obj.group_id
                IN /\ resp'[r].code \in {200, 500}
                   /\ resp'[r].code = 500 => db' = db
                   /\ resp'[r].code = 200
                        => /\ resp'[r].status = "PENDING"
                           /\ mappings'[resp'[r].mapping_id].status = "PENDING"
                           /\ mappings'[resp'[r].mapping_id].group_id = g
                           /\ mappings'[resp'[r].mapping_id].canonical_supplier_id
                                 = req[r].obj.canonical_supplier_id
                           /\ Cardinality({m \in DOMAIN mappings' : mappings'[m].group_id = g}) = 2
                           /\ \A m \in MappingsOf(g) : mappings'[m] = mappings[m]
                           /\ events' = events
                           /\ Cardinality(RejectEventsOf(g)) = 1
          /\ (resp'[r] # resp[r] /\ resp'[r].op = "list_groups" /\ resp'[r].code = 200)
             => \A g \in DOMAIN resp'[r].groups :
                   \A m1, m2 \in MappingsOf(g) :
                      (/\ MappingsOf(g) = {m1, m2}
                       /\ mappings[m1].status = "REJECTED"
                       /\ mappings[m2].status = "PENDING"
                       /\ mappings[m1].created_at < mappings[m2].created_at)
                      => /\ resp'[r].groups[g].status = "PENDING"
                         /\ resp'[r].groups[g].canonical_supplier_id
                               = Some(mappings[m2].canonical_supplier_id)
                         /\ resp'[r].groups[g].reject_reason_label = None]_vars

\* Group 1 was mapped to supplier X and rejected with WRONG_INN, then proposed
\* again to supplier Y; the seller's listing shows PENDING with Y.
C20_Witness ==
    /\ Len(mappings) = 2 /\ Len(events) = 1
    /\ mappings[1].group_id = 1 /\ mappings[2].group_id = 1
    /\ mappings[1].status = "REJECTED" /\ mappings[2].status = "PENDING"
    /\ mappings[1].canonical_supplier_id # mappings[2].canonical_supplier_id
    /\ events[1].mapping_id = 1 /\ events[1].decision = "REJECTED"
    /\ events[1].reject_reason_label = Some(REJECTION_REASONS["WRONG_INN"])
    /\ events[1].decided_at < mappings[2].created_at
    /\ resp[1].op = "list_groups" /\ resp[1].code = 200
    /\ 1 \in DOMAIN resp[1].groups
    /\ resp[1].groups[1].status = "PENDING"
    /\ resp[1].groups[1].canonical_supplier_id = Some(mappings[2].canonical_supplier_id)
    /\ resp[1].groups[1].reject_reason_label = None

(* ------------------ claims on rows without a usable INN --------------- *)
\* Rows of one scope whose INN is null, empty, without a digit or a valid
\* ten-digit number, under one raw supplier text, and a null INN under another.
NullInnRows ==
    { [ownerId |-> "A", packetId |-> "P", inn |-> None, std_supplier |-> "Acme"],
      [ownerId |-> "A", packetId |-> "P", inn |-> Some(<<>>), std_supplier |-> "Acme"],
      [ownerId |-> "A", packetId |-> "P", inn |-> Some(INNNoDigit), std_supplier |-> "Acme"],
      [ownerId |-> "A", packetId |-> "P", inn |-> Some(INN10), std_supplier |-> "Acme"],
      [ownerId |-> "A", packetId |-> "P", inn |-> None, std_supplier |-> "Bolt"] }

\* Import requests one after another over those rows.
NextNullInn ==
    \/ Tick
    \/ \E batch \in SeqsUpTo(NullInnRows, MaxBatch) : ImportStart(1, batch, TRUE, MaxItems)
    \/ \E r \in Reqs : ImportStep(r)

SpecNullInn == Init /\ [][NextNullInn]_vars

\* The raw INN of a stored price item has no digit (null and empty are both
\* stored as the empty string).
NoDigit(inn) == \A k \in DOMAIN inn : inn[k] \notin Digits

\* Price items and groups of one owner, packet and raw supplier text.
ItemsUnder(o, p, raw) ==
    {i \in DOMAIN items : /\ items[i].owner_id = o /\ items[i].packet_id = p
                          /\ items[i].std_supplier = raw}

GroupsUnder(o, p, raw) ==
    {g \in DOMAIN groups : /\ groups[g].owner_id = o /\ groups[g].packet_id = p
                           /\ groups[g].std_supplier_raw = raw}

\* C21: the imported rows whose INN is null, empty or without a digit and that
\* share owner, packet and raw supplier text are all counted by one group,
\* whose normalized INN is NULL; every other group with that owner, packet
\* and raw text has a non-null normalized INN and counts none of those rows.
C21_NullInnOneGroup ==
    \A i \in DOMAIN items :
        NoDigit(items[i].inn)
        => LET o == items[i].owner_id
               p == items[i].packet_id
               raw == items[i].std_supplier
               unusable == {j \in ItemsUnder(o, p, raw) : NoDigit(items[j].inn)}
               nullGroups == {g \in GroupsUnder(o, p, raw) : groups[g].inn_norm = None}
           IN /\ items[i].inn_norm = None
              /\ Cardinality(nullGroups) = 1
              /\ \A g \in nullGroups : groups[g].items_count = Cardinality(unusable)
              /\ \A h \in GroupsUnder(o, p, raw) \ nullGroups :
                    /\ groups[h].inn_norm # None
                    /\ groups[h].items_count
                          = Cardinality({j \in ItemsUnder(o, p, raw) :
                                            items[j].inn_norm = groups[h].inn_norm})

\* An empty (or null) INN and an INN without a digit were imported under one
\* raw text next to a valid INN: two groups, the NULL one counting two rows.
C21_Witness ==
    /\ Len(items) = 3
    /\ \A i \in DOMAIN items : items[i].std_supplier = "Acme"
    /\ \E i, j, k \in DOMAIN items :
          /\ items[i].inn = <<>>
          /\ items[j].inn = INNNoDigit
          /\ items[k].inn = INN10
    /\ Len(groups) = 2
    /\ \E g, h \in DOMAIN groups :
          /\ groups[g].inn_norm = None /\ groups[g].items_count = 2
          /\ groups[h].inn_norm = Some(INN10) /\ groups[h].items_count = 1

(* ---------------------- claims on the INN normalizer ------------------ *)
\* The first n characters of "123456789012345...".
DigitRun(n) ==
    [k \in 1..n |->
        CASE k % 10 = 0 -> "0" [] k % 10 = 1 -> "1" [] k % 10 = 2 -> "2" [] k % 10 = 3 -> "3"
          [] k % 10 = 4 -> "4" [] k % 10 = 5 -> "5" [] k % 10 = 6 -> "6" [] k % 10 = 7 -> "7"
          [] k % 10 = 8 -> "8" [] OTHER -> "9"]

\* Text that is not a digit, as found in hand-typed INNs.
Separators == {<<>>, <<"-">>, <<" ", "/">>, <<"n", "/", "a">>}

\* The INN of an import row: null, or up to MaxInnDigits digits with a
\* separator in front, in the middle, at the end, or in all three places.
InnInputs ==
    {None}
    \cup {Some(a \o SubSeq(DigitRun(n), 1, n \div 2) \o b
                  \o SubSeq(DigitRun(n), (n \div 2) + 1, n) \o c) :
             n \in 0..MaxInnDigits,
             a \in {<<>>, <<" ">>}, b \in Separators, c \in {<<>>, <<".">>}}

\* Import requests of one row each, over those INN texts.
NextNormalize ==
    \/ \E inn \in InnInputs :
          ImportStart(1, <<[ownerId |-> "A", packetId |-> "P", inn |-> inn,
                            std_supplier |-> "Acme"]>>, TRUE, MaxInnItems)
    \/ \E r \in Reqs : ImportStep(r)

SpecNormalize == Init /\ [][NextNormalize]_vars

RECURSIVE DigitsOf(_)
\* The digits of a text, in order.
DigitsOf(s) ==
    IF s = <<>> THEN <<>>
    ELSE (IF Head(s) \in Digits THEN <<Head(s)>> ELSE <<>>) \o DigitsOf(Tail(s))

\* What the claim prescribes for an INN whose digits are d.
Prescribed(d) ==
    IF Len(d) \in {10, 12} THEN <<Some(d), FALSE>>
    ELSE IF d # <<>> THEN <<Some(d), TRUE>>
    ELSE <<None, TRUE>>

\* C22: for every input, null included, normalize returns a pair: (d, false)
\* when the digits d of the input number exactly 10 or 12, (d, true) when d
\* is non-empty with another length, (null, true) when the input is null,
\* empty or without a digit; an import row is stored with that pair.
C22_NormalizeContract ==
    /\ \A r \in Reqs :
          req[r].kind = "import"
          => \A k \in DOMAIN req[r].items :
                LET x == req[r].items[k].inn
                IN normalize_inn(x) = Prescribed(IF x = None THEN <<>> ELSE DigitsOf(x[1]))
    /\ \A i \in DOMAIN items :
          <<items[i].inn_norm, items[i].inn_invalid>> = Prescribed(DigitsOf(items[i].inn))

\* A twelve-digit INN typed with separators was imported as valid.
C22_Witness ==
    /\ resp[1].op = "import" /\ resp[1].code = 200
    /\ Len(items) = 1
    /\ items[1].inn_norm = Some(DigitRun(12))
    /\ Len(items[1].inn) > 12
    /\ ~items[1].inn_invalid

\* C23: normalize is idempotent: normalizing the normalized INN of a stored
\* row, null included, returns it unchanged with the row's validity flag.
C23_NormalizeIdempotent ==
    /\ \A r \in Reqs :
          req[r].kind = "import"
          => \A k \in DOMAIN req[r].items :
                LET n == normalize_inn(req[r].items[k].inn)
                IN normalize_inn(n[1]) = n
    /\ \A i \in DOMAIN items :
          normalize_inn(items[i].inn_norm) = <<items[i].inn_norm, items[i].inn_invalid>>

\* Eleven digits typed with separators were imported: the normalized INN
\* differs from the text and is flagged invalid.
C23_Witness ==
    /\ resp[1].op = "import" /\ resp[1].code = 200
    /\ Len(items) = 1
    /\ items[1].inn_norm = Some(DigitRun(11))
    /\ items[1].inn # DigitRun(11)
    /\ items[1].inn_invalid

(* ------------------ claims on the mapping's snapshot ------------------ *)
\* C24: a mapping is created with the raw supplier text and the normalized
\* INN of its group, and both columns keep their value in every later step:
\* imports into the group and approve or reject of the mapping leave them.
C24_SnapshotFrozen ==
    [][/\ \A m \in DOMAIN mappings :
             /\ m \in DOMAIN mappings'
             /\ mappings'[m].std_supplier_raw = mappings[m].std_supplier_raw
             /\ mappings'[m].inn_norm = mappings[m].inn_norm
       /\ \A m \in DOMAIN mappings' \ DOMAIN mappings :
             LET g == mappings'[m].group_id
             IN /\ g \in DOMAIN groups
                /\ mappings'[m].std_supplier_raw = groups[g].std_supplier_raw
                /\ mappings'[m].inn_norm = groups[g].inn_norm]_vars

\* A mapping with a non-null snapshot was created, its group then took
\* another import (count 2, updated later than the mapping was created) and
\* the mapping was decided.
C24_Witness ==
    \E m \in DOMAIN mappings :
        /\ mappings[m].status \in Decided
        /\ mappings[m].inn_norm # None
        /\ groups[mappings[m].group_id].items_count = 2
        /\ groups[mappings[m].group_id].updated_at > mappings[m].created_at
        /\ mappings[m].inn_norm = groups[mappings[m].group_id].inn_norm
        /\ mappings[m].std_supplier_raw = groups[mappings[m].group_id].std_supplier_raw

(* ------------------- claims on concurrent moderation ------------------ *)
\* Moderation requests handled concurrently by the worker threads at one
\* clock reading, on a price list imported once and proposals of supplier 1
\* for its first group.
NextModerationRace ==
    \/ ImportStart(1, SeedBatch, TRUE, Len(SeedBatch))
    \/ ProposeStart(1, "tokA", 1, 1, TRUE)
    \/ \E r \in Reqs, m \in MappingIds : ApproveStart(r, m, ValidCookie, FALSE)
    \/ \E r \in Reqs, m \in MappingIds, p \in DeskRejectPayloads :
          RejectStart(r, m, p, None, ValidCookie, FALSE)
    \/ \E r \in Reqs : ImportStep(r)
    \/ \E r \in Reqs : ModerationStep(r)

SpecModerationRace == Init /\ [][NextModerationRace]_vars

\* C25: when two moderation requests on the same PENDING mapping are
\* interleaved, at most one succeeds: no mapping has two ModerationEvents, an
\* event whose decision differs from the mapping's status, or both approval
\* and rejection actor or timestamp.
C25_AtMostOneDecision ==
    \A m \in DOMAIN mappings :
        /\ Cardinality(EventsOf(m)) <= 1
        /\ \A e \in EventsOf(m) : events[e].decision = mappings[m].status
        /\ ~(/\ (mappings[m].approved_by # None \/ mappings[m].approved_at # None)
              /\ (mappings[m].rejected_by # None \/ mappings[m].rejected_at # None))

(* ------------- claims on the rejection shown for a group -------------- *)
\* C26: when a group resolves to REJECTED, the reason label and the decision
\* time returned are those of the REJECTED event of the group's current
\* (most recently created) mapping, also when an older mapping of the group
\* was rejected after the current one.  Stated where creation times and
\* decision times are distinct, so that both "most recent" are determined.
C26_RejectEventOfCurrentMapping ==
    [][\A r \in Reqs :
          (resp'[r] # resp[r] /\ resp'[r].op = "list_groups" /\ resp'[r].code = 200)
          => \A g \in DOMAIN resp'[r].groups :
                \A m \in MappingsOf(g) :
                   (/\ NewestOf(g) = {m}
                    /\ resp'[r].groups[g].status = "REJECTED"
                    /\ \A e, f \in RejectEventsOf(g) :
                          e # f => events[e].decided_at # events[f].decided_at)
                   => \E e \in EventsOf(m) :
                         /\ events[e].decision = "REJECTED"
                         /\ resp'[r].groups[g].reject_reason_label
                               = events[e].reject_reason_label
                         /\ resp'[r].groups[g].latest_decision_at
                               = Some(events[e].decided_at)]_vars

(* -------------- claims on the decision columns of a mapping ----------- *)
\* C27: in every reachable state the decision columns of a mapping agree
\* with its status: PENDING has no approval or rejection actor, time or
\* reason; APPROVED has the approval actor and time and no rejection column;
\* REJECTED has the rejection actor, time and a non-empty reason code and no
\* approval column, and its reason code is that of its ModerationEvent.
C27_DecisionFieldsAgree ==
    \A m \in DOMAIN mappings :
        LET row == mappings[m]
            noApproval == row.approved_by = None /\ row.approved_at = None
            noRejection == /\ row.rejected_by = None /\ row.rejected_at = None
                           /\ row.reject_reason = None
        IN /\ row.status = "PENDING" => noApproval /\ noRejection
           /\ row.status = "APPROVED"
                => row.approved_by # None /\ row.approved_at # None /\ noRejection
           /\ row.status = "REJECTED"
                => /\ row.rejected_by # None /\ row.rejected_at # None
                   /\ row.reject_reason # None /\ row.reject_reason # Some("")
                   /\ noApproval
                   /\ \E e \in EventsOf(m) : events[e].decision = "REJECTED"
                   /\ \A e \in EventsOf(m) :
                         events[e].decision = "REJECTED"
                            => events[e].reject_reason_code = row.reject_reason

(* ------------------ claims on references between rows ----------------- *)
\* Every operation that writes groups, mappings, events or suppliers, requests
\* one after another on a price list imported once.
NextLifecycle ==
    \/ ImportStart(1, SeedBatch, TRUE, Len(SeedBatch))
    \/ \E t \in DeskTokens, g \in DOMAIN SeedBatch, s \in SupplierIds :
          ProposeStart(1, t, g, s, TRUE)
    \/ \E m \in MappingIds : ApproveStart(1, m, ValidCookie, TRUE)
    \/ \E m \in MappingIds, p \in DeskRejectPayloads :
          RejectStart(1, m, p, None, ValidCookie, TRUE)
    \/ \E s \in SupplierIds : DeleteStart(1, s, ValidCookie, TRUE)
    \/ \E r \in Reqs : ImportStep(r)
    \/ \E r \in Reqs : ModerationStep(r)
    \/ \E r \in Reqs : DeleteCheck(r) \/ DeleteCommit(r)

SpecLifecycle == Init /\ [][NextLifecycle]_vars

\* Every mapping refers to a stored group and carries its owner and packet;
\* every event refers to a stored mapping and carries its owner, packet and
\* group id.
ReferencesHold ==
    /\ \A m \in DOMAIN mappings :
          /\ mappings[m].group_id \in DOMAIN groups
          /\ mappings[m].owner_id = groups[mappings[m].group_id].owner_id
          /\ mappings[m].packet_id = groups[mappings[m].group_id].packet_id
    /\ \A e \in DOMAIN events :
          /\ events[e].mapping_id \in DOMAIN mappings
          /\ events[e].owner_id = mappings[events[e].mapping_id].owner_id
          /\ events[e].packet_id = mappings[events[e].mapping_id].packet_id
          /\ events[e].supplier_group_id = mappings[events[e].mapping_id].group_id

\* C28: in every reachable state every mapping refers to an existing group
\* with the mapping's owner and packet, every ModerationEvent refers to an
\* existing mapping with the event's owner, packet and group id, and no step
\* removes a group, a mapping or an event or changes the columns referred to.
C28_ReferencesKept ==
    [][/\ ReferencesHold'
       /\ \A g \in DOMAIN groups :
             /\ g \in DOMAIN groups'
             /\ groups'[g].owner_id = groups[g].owner_id
             /\ groups'[g].packet_id = groups[g].packet_id
       /\ \A m \in DOMAIN mappings :
             /\ m \in DOMAIN mappings'
             /\ mappings'[m].group_id = mappings[m].group_id
             /\ mappings'[m].owner_id = mappings[m].owner_id
             /\ mappings'[m].packet_id = mappings[m].packet_id
       /\ \A e \in DOMAIN events : e \in DOMAIN events' /\ events'[e] = events[e]]_vars

\* Mappings of both groups are decided and in the ledger, and the delete of
\* a supplier that a mapping refers to has failed, leaving every row.
C28_Witness ==
    /\ Len(mappings) = 2 /\ mappings[1].group_id # mappings[2].group_id
    /\ Len(events) = 2 /\ events[1].mapping_id # events[2].mapping_id
    /\ ReferencesHold
    /\ \E r \in Reqs :
          /\ resp[r].op = "delete" /\ resp[r].code = 500
          /\ resp[r].detail = "integrity error"

====
